---- MODULE Spec2Model ----
(***************************************************************************)
(* HopScotchIRML: the retrieval subsystem (index store, keyword fallback,  *)
(* hybrid retriever) and the path-resolution engine of app.py and          *)
(* app_chat.py, as state machines.                                         *)
(*                                                                         *)
(* Texts are sequences of one-character strings.  The embedding model and  *)
(* the similarity index are external libraries: an embedding is the pair   *)
(* of letter counts of the text, the inner product is the dot product, and *)
(* a search returns the k best positions padded with -1, as the library's  *)
(* IndexFlatIP does.                                                       *)
(***************************************************************************)
EXTENDS Integers, Sequences, FiniteSets, TLC

VARIABLES
    RAG_AVAILABLE,    \* the optional imports succeeded
    faults,           \* the file system lets a write or an unlink fail
    proc,             \* "starting" | "serving" | "down"
    corpus,           \* the documents under DOCS_DIR
    indexFile,        \* INDEX_PATH: Missing | Corrupt | [vecs]
    metaFile,         \* META_PATH:  Missing | Corrupt | [items]
    half_written,     \* history: INDEX_PATH was written and META_PATH not yet after it
    embedder,         \* _embedder is loaded
    faiss_index,      \* _faiss_index: NoIndex | [vecs]
    chunks,           \* _chunks
    raw_docs_cache,   \* _raw_docs_cache: NoCache | [docs]
    bld,              \* the thread running _build_index / rag_reindex
    rt,               \* the thread running _retrieve
    paths_file,       \* PATHS_PATH: Missing | the configuration authored
    paths_config,     \* _paths_config
    sess,             \* the session document
    view,             \* the last response of the session's endpoints
    found,            \* the session document as the last request loaded it
    job,              \* one call of _chunk: its arguments and its result
    cli,              \* the outcome of the last run of create_index.py
    chat_req,         \* the chat_send request in flight: its loaded session
    kw                \* the threads inside _keyword_fallback, by caller

ragvars == <<RAG_AVAILABLE, faults, proc, corpus, indexFile, metaFile, half_written, embedder,
             faiss_index, chunks, raw_docs_cache, bld, rt>>

sessvars == <<paths_file, paths_config, sess, view, found>>

fnvars == <<job, cli, chat_req, kw>>

vars == <<ragvars, sessvars, fnvars>>

\* Python's None where a string may stand
None == "None"
\* _faiss_index is None; _raw_docs_cache is None
NoIndex == [st |-> "none"]
NoCache == [st |-> "none"]
\* an artifact that does not exist; one that does not parse
Missing == [st |-> "missing"]
Corrupt == [st |-> "corrupt"]

\* ---------------------------------------------------------------- bounds
MaxK == 2

\* ------------------------------------------------------- program constants
DefaultMaxChars == 2400
DefaultOverlap == 400
KeywordTextLimit == 2000

\* ------------------------------------------------------------------ texts
Min(a, b) == IF a < b THEN a ELSE b
Max(a, b) == IF a > b THEN a ELSE b

IsSpace(c) == c \in {" ", "\n"}

LowerChar(c) == IF c = "A" THEN "a" ELSE IF c = "B" THEN "b" ELSE c

\* str.lower()
Lower(t) == [i \in 1..Len(t) |-> LowerChar(t[i])]

\* Python t[i:j], 0 <= i
Slice(t, i, j) == SubSeq(t, i + 1, Min(j, Len(t)))

RECURSIVE LStrip(_)
LStrip(t) == IF t # <<>> /\ IsSpace(Head(t)) THEN LStrip(Tail(t)) ELSE t

RECURSIVE RStrip(_)
RStrip(t) ==
    IF t # <<>> /\ IsSpace(t[Len(t)]) THEN RStrip(SubSeq(t, 1, Len(t) - 1)) ELSE t

\* str.strip()
Strip(t) == RStrip(LStrip(t))

\* re.sub(r"\s+", " ", t): every run of whitespace becomes one space, so a
\* whitespace character is kept (as a space) only at the start of its run
CollapseSpace(t) ==
    LET marked == [i \in 1..Len(t) |->
                      [c |-> IF IsSpace(t[i]) THEN " " ELSE t[i],
                       keep |-> \/ ~IsSpace(t[i])
                                \/ i = 1
                                \/ ~IsSpace(t[i - 1])]]
        Kept(p) == p.keep
        kept == SelectSeq(marked, Kept)
    IN  [i \in 1..Len(kept) |-> kept[i].c]

\* range(0, n, step) from i on
RECURSIVE Windows(_, _, _, _)
Windows(t, i, step, max_chars) ==
    IF i >= Len(t) THEN <<>>
    ELSE <<Slice(t, i, i + max_chars)>> \o Windows(t, i + step, step, max_chars)

_chunk(text, max_chars, overlap) ==
    LET t == Strip(CollapseSpace(text))
        step == Max(1, max_chars - overlap)
    IN  IF t = <<>> THEN <<>> ELSE Windows(t, 0, step, max_chars)

\* t starts with q at 0-based offset i
MatchAt(t, q, i) == i + Len(q) <= Len(t) /\ SubSeq(t, i + 1, i + Len(q)) = q

\* str.count(q) for non-empty q: non-overlapping occurrences, left to right
RECURSIVE CountFrom(_, _, _)
CountFrom(t, q, i) ==
    LET later == {j \in i..(Len(t) - Len(q)) : MatchAt(t, q, j)}
        first == CHOOSE j \in later : \A x \in later : j <= x
    IN  IF later = {} THEN 0 ELSE 1 + CountFrom(t, q, first + Len(q))

Count(t, q) == CountFrom(t, q, 0)

\* q in t
Contains(t, q) == \E i \in 0..Len(t) : MatchAt(t, q, i)

\* --------------------------------------------------------------- corpus
Doc(source, text) == [source |-> source, text |-> text]

CorpusA == << Doc("w.txt", <<" ", "a", " ">>), Doc("y.md", <<"B">>) >>
CorpusB == << Doc("x.txt", <<"a", "\n", "\n", "b", " ", "b">>) >>
CorpusE == << Doc("z.pdf", <<" ">>) >>

Corpora == {CorpusA, CorpusB, CorpusE}

\* a corpus for keyword scoring: a document with one occurrence of "a" and of
\* "b", a document longer than the text a keyword result carries, with three
\* occurrences of "a" and two of "b" in either case, and one with neither
LongText ==
    [i \in 1..(KeywordTextLimit + 1) |->
        IF i \in {1, 3, 5} THEN "a" ELSE IF i = 2 THEN "B" ELSE IF i = 4 THEN "b" ELSE "c"]
CorpusK == << Doc("s.txt", <<"b", "a">>), Doc("t.txt", LongText), Doc("u.md", <<"C">>) >>
KwCorpora == {CorpusK, CorpusB}

\* _load_all_docs: the documents of the corpus in sorted order; a file whose
\* read fails is not part of the corpus value
_load_all_docs == corpus

\* the chunks of a document list, in order (the loops of _build_index)
RECURSIVE ChunkDocs(_)
ChunkDocs(docs) ==
    IF docs = <<>> THEN <<>>
    ELSE LET d == Head(docs)
             pieces == _chunk(d.text, DefaultMaxChars, DefaultOverlap)
         IN  [i \in 1..Len(pieces) |-> [text |-> pieces[i], source |-> d.source]]
             \o ChunkDocs(Tail(docs))

\* [{"id": i, **c} for i, c in enumerate(chunks)]
Enumerate(cs) ==
    [i \in 1..Len(cs) |-> [id |-> i - 1, text |-> cs[i].text, source |-> cs[i].source]]

\* ------------------------------------------------------------- embedding
RECURSIVE CountChar(_, _)
CountChar(t, c) ==
    IF t = <<>> THEN 0 ELSE (IF Head(t) = c THEN 1 ELSE 0) + CountChar(Tail(t), c)

\* _embedder.encode of one text
Encode(t) == <<CountChar(Lower(t), "a"), CountChar(Lower(t), "b")>>

InnerProduct(u, v) == u[1] * v[1] + u[2] * v[2]

\* faiss.IndexFlatIP(dim) followed by index.add(vecs)
NewIndex(texts) ==
    [st |-> "ok", vecs |-> [i \in 1..Len(texts) |-> Encode(texts[i])]]

\* the vectors are the embeddings of the metadata entries, position by position
Consistent(vecs, items) ==
    /\ Len(vecs) = Len(items)
    /\ \A i \in 1..Len(items) : vecs[i] = Encode(items[i].text)

\* ------------------------------------------------------- similarity search
\* the sequence s ordered by descending score, equal scores in their order in s
RECURSIVE InsertDesc(_, _)
InsertDesc(x, s) ==
    IF s = <<>> THEN <<x>>
    ELSE IF Head(s).score >= x.score
         THEN <<Head(s)>> \o InsertDesc(x, Tail(s))
         ELSE <<x>> \o s

SortDescAsGiven(s) == s

RECURSIVE SortDesc(_)
SortDesc(s) ==
    IF s = <<>> THEN <<>>
    ELSE InsertDesc(s[Len(s)], SortDesc(SubSeq(s, 1, Len(s) - 1)))

\* index.search(qv, k), as zip(I[0], D[0]): the k best positions by inner
\* product, best first, padded with position -1 when the index holds fewer
faiss_search(index, qv, k) ==
    LET n == Len(index.vecs)
        all == SortDesc([i \in 1..n |->
                   [idx |-> i - 1, score |-> InnerProduct(qv, index.vecs[i])]])
    IN  [j \in 1..k |-> IF j <= n THEN all[j] ELSE [idx |-> -1, score |-> -1]]

MapHitsMixed(hits, cs) ==
    LET kept == SelectSeq(hits, LAMBDA h : 0 <= h.idx /\ h.idx < Len(cs))
    IN  [j \in 1..Len(kept) |->
            [text |-> cs[kept[j].idx + 1].text, source |-> cs[kept[j].idx + 1].source,
             score |-> IF j = Len(kept)
                       THEN Count(Lower(cs[kept[j].idx + 1].text), <<"a">>) + 1
                       ELSE kept[j].score]]

\* the loop over zip(I[0], D[0]): positions outside _chunks are dropped
RECURSIVE MapHits(_, _)
MapHits(hits, cs) ==
    IF hits = <<>> THEN <<>>
    ELSE LET h == Head(hits)
         IN  (IF 0 <= h.idx /\ h.idx < Len(cs)
              THEN <<[text |-> cs[h.idx + 1].text, source |-> cs[h.idx + 1].source,
                      score |-> h.score]>>
              ELSE <<>>)
             \o MapHits(Tail(hits), cs)

RECURSIVE ScoreDocsNoBonus(_, _)
ScoreDocsNoBonus(docs, q) ==
    IF docs = <<>> THEN <<>>
    ELSE LET d == Head(docs)
             occ == Count(Lower(d.text), q)
         IN  (IF d.text # <<>> /\ occ > 0
              THEN <<[text |-> Slice(d.text, 0, KeywordTextLimit), source |-> d.source,
                      score |-> occ]>>
              ELSE <<>>)
             \o ScoreDocsNoBonus(Tail(docs), q)

\* ------------------------------------------------------- _keyword_fallback
\* the loop over _raw_docs_cache
RECURSIVE ScoreDocs(_, _)
ScoreDocs(docs, q) ==
    IF docs = <<>> THEN <<>>
    ELSE LET d == Head(docs)
             tl == Lower(d.text)
             occ == Count(tl, q)
             score == occ + (IF Contains(tl, q) THEN 1 ELSE 0)
         IN  (IF d.text # <<>> /\ score > 0
              THEN <<[text |-> Slice(d.text, 0, KeywordTextLimit), source |-> d.source,
                      score |-> score]>>
              ELSE <<>>)
             \o ScoreDocs(Tail(docs), q)

KeywordFallbackUntruncated(docs, query, k) ==
    LET q == Lower(Strip(query))
    IN  IF q = <<>> THEN <<>> ELSE SortDesc(ScoreDocs(docs, q))

\* _keyword_fallback(query, k) over the cached documents
_keyword_fallback(docs, query, k) ==
    LET q == Lower(Strip(query))
    IN  IF q = <<>> THEN <<>>
        ELSE Slice(SortDesc(ScoreDocs(docs, q)), 0, k)

\* ---------------------------------------------------------------- _retrieve
\* an optional boost argument
NoBoost == [given |-> FALSE, text |-> <<>>]
Boost(t) == [given |-> TRUE, text |-> t]

\* "if boost": a boost that is given and not the empty string
Truthy(b) == b.given /\ b.text # <<>>

\* the (query, boost) arguments of the calls
Calls ==
    { <<<<"a">>, NoBoost>>,
      <<<<"a">>, Boost(<<"b", " ", "b">>)>>,
      <<<<"b", " ", "B">>, Boost(<<"a">>)>>,
      <<<<" ", "B">>, Boost(<<>>)>> }

\* composite = f"{query}\n\n{boost}" if boost else query
Composite(query, boost) ==
    IF Truthy(boost) THEN query \o <<"\n", "\n">> \o boost.text ELSE query

\* the strategies, by their rank in the cascade: 1 vector composite,
\* 2 vector query, 3 vector boost, 4 keyword composite, 5 keyword query
StratText(s, query, boost) ==
    CASE s \in {1, 4} -> Composite(query, boost)
      [] s \in {2, 5} -> query
      [] s = 3 -> boost.text

NextStratSkipsQuery(variant, s, boost) ==
    IF variant = "chat" THEN (IF s = 1 THEN 4 ELSE 0)
    ELSE CASE s = 1 -> IF Truthy(boost) THEN 3 ELSE 4
           [] s = 2 -> 4
           [] s = 3 -> 4
           [] s = 4 -> 5
           [] OTHER -> 0

\* the strategy tried after strategy s returned nothing; 0: return what there is.
\* app.py tries all five, app_chat.py has no boost and tries the query once each way
NextStrat(variant, s, boost) ==
    IF variant = "chat" THEN (IF s = 1 THEN 4 ELSE 0)
    ELSE CASE s = 1 -> 2
           [] s = 2 -> IF Truthy(boost) THEN 3 ELSE 4
           [] s = 3 -> 4
           [] s = 4 -> 5
           [] OTHER -> 0

RtIdle ==
    [pc |-> "idle", variant |-> "none", query |-> <<>>, boost |-> NoBoost, k |-> 0,
     strat |-> 0, guard |-> FALSE, hits |-> <<>>, seen |-> <<>>, torn |-> FALSE,
     tried |-> <<>>, results |-> <<>>]

\* a chat turn calls _retrieve; app_chat.py's takes no boost
RetrieveCall ==
    /\ proc = "serving"
    /\ rt.pc = "idle"
    /\ \E variant \in {"app", "chat"}, c \in Calls, k \in 0..MaxK :
          /\ variant = "chat" => c[2] = NoBoost
          /\ rt' = [RtIdle EXCEPT !.pc = "guard", !.variant = variant, !.query = c[1],
                                  !.boost = c[2], !.k = k]
    /\ UNCHANGED <<RAG_AVAILABLE, faults, proc, corpus, indexFile, metaFile, half_written, embedder,
                   faiss_index, chunks, raw_docs_cache, bld>>
    /\ UNCHANGED <<sessvars, fnvars>>

\* if RAG_AVAILABLE and _faiss_index is not None and _chunks: _ensure_embedder()
RetrieveGuard ==
    /\ rt.pc = "guard"
    /\ IF RAG_AVAILABLE /\ faiss_index # NoIndex /\ chunks # <<>>
       THEN \E ok \in (IF embedder THEN {TRUE} ELSE BOOLEAN) :
                IF ok
                THEN /\ embedder' = TRUE
                     /\ rt' = [rt EXCEPT !.pc = "search", !.strat = 1, !.guard = TRUE]
                ELSE /\ rt' = [rt EXCEPT !.pc = "raised"]
                     /\ UNCHANGED embedder
       ELSE /\ rt' = [rt EXCEPT !.pc = "keyword", !.strat = 4]
            /\ UNCHANGED embedder
    /\ UNCHANGED <<RAG_AVAILABLE, faults, proc, corpus, indexFile, metaFile, half_written,
                   faiss_index, chunks, raw_docs_cache, bld>>
    /\ UNCHANGED <<sessvars, fnvars>>

\* where an exception of the vector search goes: app.py has no handler,
\* app_chat.py logs it and falls back to keywords
OnSearchError(r) ==
    IF r.variant = "chat"
    THEN [r EXCEPT !.pc = "keyword", !.strat = 4,
                   !.tried = Append(r.tried, [s |-> r.strat, n |-> -1,
                                 text |-> StratText(r.strat, r.query, r.boost)])]
    ELSE [r EXCEPT !.pc = "raised"]

\* qv = _embedder.encode([q]); D, I = _faiss_index.search(qv, k).
\* encode may fail; the library's search asserts k > 0
RetrieveSearch ==
    /\ rt.pc = "search"
    /\ \E ok \in BOOLEAN :
          IF ok /\ rt.k > 0 /\ faiss_index # NoIndex
          THEN rt' = [rt EXCEPT !.pc = "map", !.seen = faiss_index.vecs,
                         !.hits = faiss_search(faiss_index,
                                      Encode(StratText(rt.strat, rt.query, rt.boost)), rt.k)]
          ELSE rt' = OnSearchError(rt)
    /\ UNCHANGED <<RAG_AVAILABLE, faults, proc, corpus, indexFile, metaFile, half_written, embedder,
                   faiss_index, chunks, raw_docs_cache, bld>>
    /\ UNCHANGED <<sessvars, fnvars>>

\* the loop that reads _chunks for every hit, then "if out: return out"
RetrieveMap ==
    /\ rt.pc = "map"
    /\ LET out == MapHits(rt.hits, chunks)
           r == [rt EXCEPT !.torn = rt.torn \/ ~Consistent(rt.seen, chunks),
                           !.hits = <<>>, !.seen = <<>>,
                           !.tried = Append(rt.tried, [s |-> rt.strat, n |-> Len(out),
                                         text |-> StratText(rt.strat, rt.query, rt.boost)])]
           nxt == NextStrat(rt.variant, rt.strat, rt.boost)
       IN  IF out # <<>>
           THEN rt' = [r EXCEPT !.pc = "done", !.results = out]
           ELSE rt' = [r EXCEPT !.pc = IF nxt >= 4 THEN "keyword" ELSE "search",
                                !.strat = nxt]
    /\ UNCHANGED <<RAG_AVAILABLE, faults, proc, corpus, indexFile, metaFile, half_written, embedder,
                   faiss_index, chunks, raw_docs_cache, bld>>
    /\ UNCHANGED <<sessvars, fnvars>>

\* _keyword_fallback of the strategy's text: fills the document cache on first
\* use; app.py returns the composite's result or else the bare query's
RetrieveKeyword ==
    /\ rt.pc = "keyword"
    /\ LET docs == IF raw_docs_cache = NoCache THEN _load_all_docs ELSE raw_docs_cache.docs
           out == _keyword_fallback(docs, StratText(rt.strat, rt.query, rt.boost), rt.k)
           r == [rt EXCEPT !.tried = Append(rt.tried, [s |-> rt.strat, n |-> Len(out),
                                         text |-> StratText(rt.strat, rt.query, rt.boost)])]
           nxt == NextStrat(rt.variant, rt.strat, rt.boost)
       IN  /\ raw_docs_cache' = [st |-> "ok", docs |-> docs]
           /\ IF out # <<>> \/ nxt = 0
              THEN rt' = [r EXCEPT !.pc = "done", !.results = out]
              ELSE rt' = [r EXCEPT !.strat = nxt]
    /\ UNCHANGED <<RAG_AVAILABLE, faults, proc, corpus, indexFile, metaFile, half_written, embedder,
                   faiss_index, chunks, bld>>
    /\ UNCHANGED <<sessvars, fnvars>>

\* the caller takes the list, or the exception
RetrieveReturn ==
    /\ rt.pc \in {"done", "raised"}
    /\ rt' = RtIdle
    /\ UNCHANGED <<RAG_AVAILABLE, faults, proc, corpus, indexFile, metaFile, half_written, embedder,
                   faiss_index, chunks, raw_docs_cache, bld>>
    /\ UNCHANGED <<sessvars, fnvars>>

\* ------------------------------------- _keyword_fallback, statement by statement
\* two requests of the thread pool that reach _keyword_fallback
KwCallers == {"c1", "c2"}

KwAt(pc, docs, results) == [pc |-> pc, docs |-> docs, results |-> results]

KwIdle == [c \in KwCallers |-> KwAt("idle", <<>>, <<>>)]

\* the text every such call asks for
KwQuery == <<"a">>

\* a request whose vector search gave nothing calls _keyword_fallback
KwCall(c) ==
    /\ proc = "serving"
    /\ kw[c].pc = "idle"
    /\ kw' = [kw EXCEPT ![c] = KwAt("check", <<>>, <<>>)]
    /\ UNCHANGED <<ragvars, sessvars, job, cli, chat_req>>

\* if _raw_docs_cache is None
KwCheck(c) ==
    /\ kw[c].pc = "check"
    /\ kw' = [kw EXCEPT ![c] = KwAt(IF raw_docs_cache = NoCache THEN "load" ELSE "score",
                                    <<>>, <<>>)]
    /\ UNCHANGED <<ragvars, sessvars, job, cli, chat_req>>

\* the call _load_all_docs() on the right of the assignment
KwLoad(c) ==
    /\ kw[c].pc = "load"
    /\ kw' = [kw EXCEPT ![c] = KwAt("assign", _load_all_docs, <<>>)]
    /\ UNCHANGED <<ragvars, sessvars, job, cli, chat_req>>

\* _raw_docs_cache = ...
KwAssign(c) ==
    /\ kw[c].pc = "assign"
    /\ raw_docs_cache' = [st |-> "ok", docs |-> kw[c].docs]
    /\ kw' = [kw EXCEPT ![c] = KwAt("score", <<>>, <<>>)]
    /\ UNCHANGED <<RAG_AVAILABLE, faults, proc, corpus, indexFile, metaFile, half_written,
                   embedder, faiss_index, chunks, bld, rt>>
    /\ UNCHANGED <<sessvars, job, cli, chat_req>>

\* the scoring loop over _raw_docs_cache, the sort and the truncation
KwScore(c) ==
    /\ kw[c].pc = "score"
    /\ kw' = [kw EXCEPT ![c] =
                 KwAt("done", <<>>, _keyword_fallback(raw_docs_cache.docs, KwQuery, MaxK))]
    /\ UNCHANGED <<ragvars, sessvars, job, cli, chat_req>>

\* the caller takes the list
KwReturn(c) ==
    /\ kw[c].pc = "done"
    /\ kw' = [kw EXCEPT ![c] = KwAt("idle", <<>>, <<>>)]
    /\ UNCHANGED <<ragvars, sessvars, job, cli, chat_req>>

\* --------------------------------------------------------- _build_index
BldIdle == [pc |-> "idle", caller |-> "none", lchunks |-> <<>>]

BldAt(pc, caller, lchunks) == [pc |-> pc, caller |-> caller, lchunks |-> lchunks]


\* what the caller does with the outcome: startup serves or dies, a request returns
AfterBuild(caller, raised) ==
    IF caller = "startup" THEN (IF raised THEN "down" ELSE "serving") ELSE proc

\* lines 377-382: the availability check and _ensure_embedder
BuildEnter ==
    /\ bld.pc = "enter"
    /\ IF ~RAG_AVAILABLE
       THEN /\ faiss_index' = NoIndex
            /\ chunks' = <<>>
            /\ bld' = BldIdle
            /\ proc' = AfterBuild(bld.caller, FALSE)
            /\ UNCHANGED embedder
       ELSE \E ok \in (IF embedder THEN {TRUE} ELSE BOOLEAN) :
                IF ok
                THEN /\ embedder' = TRUE
                     /\ bld' = BldAt("check", bld.caller, <<>>)
                     /\ UNCHANGED <<faiss_index, chunks, proc>>
                ELSE /\ bld' = BldIdle
                     /\ proc' = AfterBuild(bld.caller, TRUE)
                     /\ UNCHANGED <<embedder, faiss_index, chunks>>
    /\ UNCHANGED <<RAG_AVAILABLE, faults, corpus, indexFile, metaFile, half_written,
                   raw_docs_cache, rt>>
    /\ UNCHANGED <<sessvars, fnvars>>

\* lines 384-386: both artifacts exist, then faiss.read_index
BuildReadIndex ==
    /\ bld.pc = "check"
    /\ IF indexFile # Missing /\ metaFile # Missing
       THEN IF indexFile = Corrupt
            THEN /\ bld' = BldAt("scan", bld.caller, <<>>)
                 /\ UNCHANGED faiss_index
            ELSE /\ faiss_index' = indexFile
                 /\ bld' = BldAt("read_meta", bld.caller, <<>>)
       ELSE /\ bld' = BldAt("scan", bld.caller, <<>>)
            /\ UNCHANGED faiss_index
    /\ UNCHANGED <<RAG_AVAILABLE, faults, proc, corpus, indexFile, metaFile, half_written, embedder,
                   chunks, raw_docs_cache, rt>>
    /\ UNCHANGED <<sessvars, fnvars>>

BuildReadMetaRaises ==
    /\ bld.pc = "read_meta"
    /\ IF metaFile \in {Missing, Corrupt}
       THEN /\ bld' = BldIdle
            /\ proc' = AfterBuild(bld.caller, TRUE)
            /\ UNCHANGED chunks
       ELSE /\ chunks' = metaFile.items
            /\ bld' = BldIdle
            /\ proc' = AfterBuild(bld.caller, FALSE)
    /\ UNCHANGED <<RAG_AVAILABLE, faults, corpus, indexFile, metaFile, half_written, embedder,
                   faiss_index, raw_docs_cache, rt>>
    /\ UNCHANGED <<sessvars, fnvars>>

\* lines 387-390: json.loads of the metadata, return on success
BuildReadMeta ==
    /\ bld.pc = "read_meta"
    /\ IF metaFile \in {Missing, Corrupt}
       THEN /\ bld' = BldAt("scan", bld.caller, <<>>)
            /\ UNCHANGED <<chunks, proc>>
       ELSE /\ chunks' = metaFile.items
            /\ bld' = BldIdle
            /\ proc' = AfterBuild(bld.caller, FALSE)
    /\ UNCHANGED <<RAG_AVAILABLE, faults, corpus, indexFile, metaFile, half_written, embedder,
                   faiss_index, raw_docs_cache, rt>>
    /\ UNCHANGED <<sessvars, fnvars>>

\* lines 392-411: scan and chunk the corpus; no chunks: the empty index;
\* otherwise encode (which may raise), build the index and assign _faiss_index
BuildScan ==
    /\ bld.pc = "scan"
    /\ LET cs == ChunkDocs(_load_all_docs)
           texts == [i \in 1..Len(cs) |-> cs[i].text]
       IN  IF cs = <<>>
           THEN /\ faiss_index' = NewIndex(<<>>)
                /\ bld' = BldAt("empty_chunks", bld.caller, <<>>)
                /\ UNCHANGED proc
           ELSE \E ok \in BOOLEAN :
                    IF ok
                    THEN /\ faiss_index' = NewIndex(texts)
                         /\ bld' = BldAt("write_index", bld.caller, cs)
                         /\ UNCHANGED proc
                    ELSE /\ bld' = BldIdle
                         /\ proc' = AfterBuild(bld.caller, TRUE)
                         /\ UNCHANGED faiss_index
    /\ UNCHANGED <<RAG_AVAILABLE, faults, corpus, indexFile, metaFile, half_written, embedder,
                   chunks, raw_docs_cache, rt>>
    /\ UNCHANGED <<sessvars, fnvars>>

\* line 400: _chunks = [] after the empty index was assigned
BuildEmptyChunks ==
    /\ bld.pc = "empty_chunks"
    /\ chunks' = <<>>
    /\ bld' = BldIdle
    /\ proc' = AfterBuild(bld.caller, FALSE)
    /\ UNCHANGED <<RAG_AVAILABLE, faults, corpus, indexFile, metaFile, half_written, embedder,
                   faiss_index, raw_docs_cache, rt>>
    /\ UNCHANGED <<sessvars, fnvars>>

\* line 413: faiss.write_index(_faiss_index, INDEX_PATH); a failed write
\* leaves the old file or a truncated one
BuildWriteIndex ==
    /\ bld.pc = "write_index"
    /\ \/ /\ indexFile' = faiss_index
          /\ half_written' = TRUE
          /\ bld' = BldAt("write_meta", bld.caller, bld.lchunks)
          /\ UNCHANGED proc
       \/ /\ faults
          /\ indexFile' \in {indexFile, Corrupt}
          /\ UNCHANGED half_written
          /\ bld' = BldIdle
          /\ proc' = AfterBuild(bld.caller, TRUE)
    /\ UNCHANGED <<RAG_AVAILABLE, faults, corpus, metaFile, embedder, faiss_index,
                   chunks, raw_docs_cache, rt>>
    /\ UNCHANGED <<sessvars, fnvars>>

\* lines 414-420: META_PATH.write_text(json.dumps(...))
BuildWriteMeta ==
    /\ bld.pc = "write_meta"
    /\ \/ /\ metaFile' = [st |-> "ok", items |-> Enumerate(bld.lchunks)]
          /\ half_written' = FALSE
          /\ bld' = BldAt("set_chunks", bld.caller, bld.lchunks)
          /\ UNCHANGED proc
       \/ /\ faults
          /\ metaFile' \in {metaFile, Corrupt}
          /\ UNCHANGED half_written
          /\ bld' = BldIdle
          /\ proc' = AfterBuild(bld.caller, TRUE)
    /\ UNCHANGED <<RAG_AVAILABLE, faults, corpus, indexFile, embedder, faiss_index,
                   chunks, raw_docs_cache, rt>>
    /\ UNCHANGED <<sessvars, fnvars>>

\* line 421: _chunks = [{"id": i, **c} ...]
BuildSetChunks ==
    /\ bld.pc = "set_chunks"
    /\ chunks' = Enumerate(bld.lchunks)
    /\ bld' = BldIdle
    /\ proc' = AfterBuild(bld.caller, FALSE)
    /\ UNCHANGED <<RAG_AVAILABLE, faults, corpus, indexFile, metaFile, half_written, embedder,
                   faiss_index, raw_docs_cache, rt>>
    /\ UNCHANGED <<sessvars, fnvars>>

\* ----------------------------------------------------------- rag_reindex
\* a POST /rag/reindex arrives
ReindexCall ==
    /\ proc = "serving"
    /\ bld.pc = "idle"
    /\ bld' = BldAt("unlink_index", "reindex", <<>>)
    /\ UNCHANGED <<RAG_AVAILABLE, faults, proc, corpus, indexFile, metaFile, half_written, embedder,
                   faiss_index, chunks, raw_docs_cache, rt>>
    /\ UNCHANGED <<sessvars, fnvars>>

\* if INDEX_PATH.exists(): INDEX_PATH.unlink(); an exception skips to the build
ReindexUnlinkIndex ==
    /\ bld.pc = "unlink_index"
    /\ IF indexFile = Missing
       THEN /\ bld' = BldAt("unlink_meta", "reindex", <<>>)
            /\ UNCHANGED <<indexFile, half_written>>
       ELSE \/ /\ indexFile' = Missing
               /\ half_written' = FALSE
               /\ bld' = BldAt("unlink_meta", "reindex", <<>>)
            \/ /\ faults
               /\ bld' = BldAt("enter", "reindex", <<>>)
               /\ UNCHANGED <<indexFile, half_written>>
    /\ UNCHANGED <<RAG_AVAILABLE, faults, proc, corpus, metaFile, embedder, faiss_index,
                   chunks, raw_docs_cache, rt>>
    /\ UNCHANGED <<sessvars, fnvars>>

\* if META_PATH.exists(): META_PATH.unlink(); then _build_index()
ReindexUnlinkMeta ==
    /\ bld.pc = "unlink_meta"
    /\ IF metaFile = Missing
       THEN UNCHANGED metaFile
       ELSE \/ metaFile' = Missing
            \/ faults /\ UNCHANGED metaFile
    /\ bld' = BldAt("enter", "reindex", <<>>)
    /\ UNCHANGED <<RAG_AVAILABLE, faults, proc, corpus, indexFile, half_written, embedder, faiss_index,
                   chunks, raw_docs_cache, rt>>
    /\ UNCHANGED <<sessvars, fnvars>>

\* ------------------------------------------------------- create_index.py
\* how a run of the tool ended: "done", "exists" (nothing to do), "exit"
\* (SystemExit with a message) or "raised"
CliNotRun == [status |-> "none", rebuild |-> FALSE]

CliEnded(status, rebuild) == [status |-> status, rebuild |-> rebuild]

\* python create_index.py [--rebuild], run while the service is down: the
\* existence check, load_docs and chunk_text, then encode and the two writes
CreateIndexMain ==
    /\ proc = "down"
    /\ \E rebuild \in BOOLEAN :
          IF indexFile # Missing /\ metaFile # Missing /\ ~rebuild
          THEN /\ cli' = CliEnded("exists", rebuild)
               /\ UNCHANGED <<indexFile, metaFile, half_written>>
          ELSE LET cs == ChunkDocs(corpus)
                   texts == [i \in 1..Len(cs) |-> cs[i].text]
               IN  IF cs = <<>>
                   THEN /\ cli' = CliEnded("exit", rebuild)
                        /\ UNCHANGED <<indexFile, metaFile, half_written>>
                   ELSE \/ /\ cli' = CliEnded("done", rebuild)
                           /\ indexFile' = NewIndex(texts)
                           /\ metaFile' = [st |-> "ok", items |-> Enumerate(cs)]
                           /\ half_written' = FALSE
                        \/ /\ cli' = CliEnded("raised", rebuild)
                           /\ UNCHANGED <<indexFile, metaFile, half_written>>
                        \/ /\ faults
                           /\ cli' = CliEnded("raised", rebuild)
                           /\ indexFile' = NewIndex(texts)
                           /\ metaFile' \in {metaFile, Corrupt}
                           /\ half_written' = TRUE
    /\ UNCHANGED <<RAG_AVAILABLE, faults, proc, corpus, embedder, faiss_index, chunks,
                   raw_docs_cache, bld, rt>>
    /\ UNCHANGED <<sessvars, job, chat_req, kw>>

\* --------------------------------------------------------- environment
\* the next step of a thread reads DOCS_DIR
ReadsCorpusNext ==
    \/ bld.pc = "scan"
    \/ rt.pc = "keyword" /\ raw_docs_cache = NoCache
    \/ \E c \in KwCallers : kw[c].pc = "load"

\* files are added to or removed from DOCS_DIR.  Only _load_all_docs reads the
\* directory, so a change at any earlier moment is the same as one right
\* before the read
CorpusChange ==
    /\ ReadsCorpusNext
    /\ \E c \in Corpora \ {corpus} : corpus' = c
    /\ UNCHANGED <<RAG_AVAILABLE, faults, proc, indexFile, metaFile, half_written, embedder, faiss_index,
                   chunks, raw_docs_cache, bld, rt>>
    /\ UNCHANGED <<sessvars, fnvars>>

\* the process stops; a write in progress leaves the old file or a truncated one
Crash ==
    /\ proc # "down"
    /\ proc' = "down"
    /\ indexFile' \in (IF bld.pc = "write_index" THEN {indexFile, Corrupt} ELSE {indexFile})
    /\ metaFile' \in (IF bld.pc = "write_meta" THEN {metaFile, Corrupt} ELSE {metaFile})
    /\ embedder' = FALSE
    /\ faiss_index' = NoIndex
    /\ chunks' = <<>>
    /\ raw_docs_cache' = NoCache
    /\ bld' = BldIdle
    /\ rt' = RtIdle
    /\ UNCHANGED <<RAG_AVAILABLE, faults, corpus, half_written>>
    /\ UNCHANGED <<sessvars, fnvars>>

\* the process starts: module globals, then the startup hook calls _build_index
Start ==
    /\ proc = "down"
    /\ proc' = "starting"
    /\ bld' = BldAt("enter", "startup", <<>>)
    /\ UNCHANGED <<RAG_AVAILABLE, faults, corpus, indexFile, metaFile, half_written, embedder, faiss_index,
                   chunks, raw_docs_cache, rt>>
    /\ UNCHANGED <<sessvars, fnvars>>

\* ------------------------------------------------------------------ path resolution

\* a dict without keys; d.get(k, default)
EmptyDict == [k \in {} |-> None]
Get(d, k, default) == IF k \in DOMAIN d THEN d[k] ELSE default
\* d[k] = v; {**old, **new}; d.pop(k, None) for each k of ks
Put(d, k, v) == [x \in DOMAIN d \cup {k} |-> IF x = k THEN v ELSE d[x]]
Merge(old, new) ==
    [x \in DOMAIN old \cup DOMAIN new |-> IF x \in DOMAIN new THEN new[x] ELSE old[x]]
PopNothing(d, ks) == d
Pop(d, ks) == [x \in DOMAIN d \ ks |-> d[x]]
\* the truth value Python gives a str or None
StrTruthy(s) == s # None /\ s # ""

\* the step numbers a request may carry: 0..MaxStep
MaxStep == 10
StepInputs == 0..MaxStep

WORLDVIEW_LABELS ==
    [positivist |-> "Positivist", post_positivist |-> "Post Positivist",
     constructivist |-> "Constructivist", transformative |-> "Transformative",
     pragmatist |-> "Pragmatist"]

\* research_paths.json as authored: every kind of step entry occurs in it
\* (full, partial, empty and absent entries; flagged and unflagged mixed steps;
\* empty, absent and non-empty guidance and addendum)
QuantSteps ==
    ("4" :> [title |-> "Q4 title", directions |-> "Q4 directions", options |-> "Q4 options",
             llm_guidance |-> "Q4 guidance"])
 @@ ("5" :> [title |-> "Q5 title", directions |-> "Q5 directions", field_type |-> "Q5 type",
             field_key |-> "Q5 key", options |-> "Q5 options", fields |-> "Q5 fields",
             llm_guidance |-> "Q5 guidance"])
 @@ ("6" :> [title |-> "Q6 title", field_type |-> "Q6 type", llm_guidance |-> ""])
 @@ ("7" :> [directions |-> "Q7 directions", field_key |-> "Q7 key"])
 @@ ("8" :> [title |-> "Q8 title", field_type |-> "Q8 type", llm_guidance |-> "Q8 guidance"])
 @@ ("9" :> [title |-> "Q9 title", field_type |-> "Q9 type", fields |-> "Q9 fields",
             llm_guidance |-> "Q9 guidance"])

QualSteps ==
    ("4" :> [title |-> "L4 title", field_key |-> "approach", options |-> "L4 options",
             llm_guidance |-> "L4 guidance"])
 @@ ("5" :> [title |-> "L5 title", directions |-> "L5 directions", field_type |-> "L5 type",
             field_key |-> "L5 key", options |-> "L5 options", fields |-> "L5 fields",
             llm_guidance |-> "L5 guidance"])
 @@ ("6" :> [title |-> "L6 title", field_type |-> "L6 type", fields |-> "L6 fields",
             llm_guidance |-> "L6 guidance"])
 @@ ("7" :> [title |-> "L7 title", llm_guidance |-> "L7 guidance"])
 @@ ("8" :> EmptyDict)

MixedSteps ==
    ("4" :> [title |-> "M4 title", directions |-> "M4 directions",
             llm_guidance |-> "M4 guidance"])
 @@ ("5" :> [inherits_from_chosen_methodology |-> TRUE, llm_guidance_addendum |-> "M5 addendum",
             title |-> "M5 title", field_type |-> "M5 type", llm_guidance |-> "M5 guidance"])
 @@ ("6" :> [inherits_from_chosen_methodology |-> TRUE, llm_guidance_addendum |-> "M6 addendum"])
 @@ ("7" :> [inherits_from_chosen_methodology |-> TRUE, llm_guidance_addendum |-> ""])
 @@ ("8" :> [inherits_from_chosen_methodology |-> TRUE, directions |-> "M8 directions"])
 @@ ("9" :> [inherits_from_chosen_methodology |-> FALSE, title |-> "M9 title",
             field_type |-> "M9 type", llm_guidance |-> "M9 guidance"])

WorldviewToPath ==
    [positivist |-> "quantitative", post_positivist |-> "quantitative",
     constructivist |-> "qualitative", transformative |-> "qualitative",
     pragmatist |-> "mixed"]

CfgFull ==
    [worldview_to_path |-> WorldviewToPath,
     paths |-> [quantitative |-> [steps |-> QuantSteps],
                qualitative |-> [steps |-> QualSteps],
                mixed |-> [steps |-> MixedSteps]]]

\* a configuration authored only as far as the worldview mapping
CfgNoPaths == [worldview_to_path |-> WorldviewToPath]

\* what PATHS_PATH may hold
PathsFiles == {CfgFull, CfgNoPaths, Missing}

\* load_paths_config: the cached value when it is truthy, otherwise the file
\* read anew ({} when it cannot be read); the result is also the new cache
load_paths_config(cache, file) ==
    IF DOMAIN cache # {} THEN cache
    ELSE IF file \in {Missing, Corrupt} THEN EmptyDict ELSE file

\* a session document as create_session leaves it
NewSession ==
    [worldview_band |-> None, worldview_label |-> None, step_notes |-> EmptyDict,
     resolved_path |-> None, chosen_methodology |-> None]

StepConfigRespTitled(step) ==
    [step |-> step, path |-> None, title |-> "Step " \o ToString(step), directions |-> "",
     field_type |-> None, field_key |-> None, options |-> None, fields |-> None,
     llm_guidance |-> None, quantitative_options |-> None,
     qualitative_options |-> None, recommended_methodology |-> None]

\* StepConfigResp(step=step): every other field at its default
StepConfigResp(step) ==
    [step |-> step, path |-> None, title |-> "", directions |-> "",
     field_type |-> None, field_key |-> None, options |-> None, fields |-> None,
     llm_guidance |-> None, quantitative_options |-> None,
     qualitative_options |-> None, recommended_methodology |-> None]

Step1First == "Please complete Step 1 first and select your worldview."
Step4First == "Please complete Step 4 first and choose your primary methodology."
Step4Pending == "The student has not yet chosen their primary methodology in Step 4."

\* f"Step {step}"
StepTitle(step) == "Step " \o ToString(step)

\* all_paths.get(path, {}).get("steps", {}).get(str(step), {})
StepCfgOf(all_paths, path, step) ==
    Get(Get(Get(all_paths, path, EmptyDict), "steps", EmptyDict), ToString(step), EmptyDict)

\* step_cfg.get("inherits_from_chosen_methodology") as a condition
Flagged(step_cfg) ==
    IF "inherits_from_chosen_methodology" \in DOMAIN step_cfg
    THEN step_cfg.inherits_from_chosen_methodology
    ELSE FALSE

JoinGuidanceNoNewline(guidance, addendum) ==
    IF StrTruthy(addendum)
    THEN (IF StrTruthy(guidance) THEN guidance \o addendum ELSE addendum)
    ELSE guidance

\* if addendum: guidance = f"{guidance}\n{addendum}" if guidance else addendum
JoinGuidance(guidance, addendum) ==
    IF StrTruthy(addendum)
    THEN (IF StrTruthy(guidance) THEN guidance \o "\n" \o addendum ELSE addendum)
    ELSE guidance

\* guidance or None
OrNone(s) == IF StrTruthy(s) THEN s ELSE None

HoldingConfigNoDirective(step) ==
    [StepConfigResp(step) EXCEPT !.path = "mixed", !.title = StepTitle(step)]

\* the configuration returned for a flagged mixed step before step 4 is done
HoldingConfig(step) ==
    [StepConfigResp(step) EXCEPT
        !.path = "mixed", !.title = StepTitle(step), !.directions = Step4First]

\* the response built from one step spec: cfg.get(key) for each field
FromStepCfg(step, path, cfg, guidance) ==
    [StepConfigResp(step) EXCEPT
        !.path = path,
        !.title = Get(cfg, "title", StepTitle(step)),
        !.directions = Get(cfg, "directions", ""),
        !.field_type = Get(cfg, "field_type", None),
        !.field_key = Get(cfg, "field_key", None),
        !.options = Get(cfg, "options", None),
        !.fields = Get(cfg, "fields", None),
        !.llm_guidance = guidance]

Step4ConfigRecommendsPath(all_paths, resolved, step_cfg) ==
    [StepConfigResp(4) EXCEPT
        !.path = resolved,
        !.title = Get(step_cfg, "title", "Step 4: How will I study it?"),
        !.directions = Get(step_cfg, "directions", ""),
        !.field_type = "methodology_decision",
        !.field_key = Get(step_cfg, "field_key", "design"),
        !.options = Get(step_cfg, "options", None),
        !.fields = Get(step_cfg, "fields", None),
        !.llm_guidance = Get(step_cfg, "llm_guidance", None),
        !.quantitative_options = Get(StepCfgOf(all_paths, "quantitative", 4), "options", None),
        !.qualitative_options = Get(StepCfgOf(all_paths, "qualitative", 4), "options", None),
        !.recommended_methodology = resolved]

\* the step-4 response: the methodology decision, for every path
Step4Config(all_paths, resolved, step_cfg) ==
    [StepConfigResp(4) EXCEPT
        !.path = resolved,
        !.title = Get(step_cfg, "title", "Step 4: How will I study it?"),
        !.directions = Get(step_cfg, "directions", ""),
        !.field_type = "methodology_decision",
        !.field_key = Get(step_cfg, "field_key", "design"),
        !.options = Get(step_cfg, "options", None),
        !.fields = Get(step_cfg, "fields", None),
        !.llm_guidance = Get(step_cfg, "llm_guidance", None),
        !.quantitative_options = Get(StepCfgOf(all_paths, "quantitative", 4), "options", None),
        !.qualitative_options = Get(StepCfgOf(all_paths, "qualitative", 4), "options", None),
        !.recommended_methodology =
            IF resolved \in {"quantitative", "qualitative"} THEN resolved ELSE None]

\* get_step_config after the session and the configuration are loaded
get_step_config(paths_cfg, s, step) ==
    LET resolved == s.resolved_path
        chosen == s.chosen_methodology
        all_paths == Get(paths_cfg, "paths", EmptyDict)
        step_cfg == StepCfgOf(all_paths, resolved, step)
        inherited_cfg == StepCfgOf(all_paths, chosen, step)
    IN  IF step <= 3 THEN StepConfigResp(step)
        ELSE IF resolved = None
        THEN [StepConfigResp(step) EXCEPT
                 !.title = StepTitle(step), !.directions = Step1First]
        ELSE IF step >= 5 /\ resolved = "mixed" /\ Flagged(step_cfg)
        THEN (IF chosen = None
              THEN HoldingConfig(step)
              ELSE FromStepCfg(step, resolved, inherited_cfg,
                       OrNone(JoinGuidance(Get(inherited_cfg, "llm_guidance", ""),
                                           Get(step_cfg, "llm_guidance_addendum", "")))))
        ELSE IF /\ step >= 5
                /\ resolved # "mixed"
                /\ chosen # None
                /\ chosen # resolved
                /\ DOMAIN inherited_cfg # {}
        THEN FromStepCfg(step, resolved, inherited_cfg,
                         Get(inherited_cfg, "llm_guidance", None))
        ELSE IF step = 4 THEN Step4Config(all_paths, resolved, step_cfg)
        ELSE FromStepCfg(step, resolved, step_cfg, Get(step_cfg, "llm_guidance", None))

\* _get_step_llm_guidance; a request without active_step and one with 0 take
\* the same branch of line 578, so 0 stands for both
_get_step_llm_guidance(paths_cfg, s, active_step) ==
    LET resolved == s.resolved_path
        chosen == s.chosen_methodology
        all_paths == Get(paths_cfg, "paths", EmptyDict)
        step_cfg == StepCfgOf(all_paths, resolved, active_step)
        inherited == StepCfgOf(all_paths, chosen, active_step)
    IN  IF active_step = 0 \/ active_step < 4 THEN None
        ELSE IF resolved = None THEN None
        ELSE IF resolved = "mixed" /\ active_step >= 5 /\ Flagged(step_cfg)
        THEN (IF chosen = None
              THEN Step4Pending
              ELSE OrNone(JoinGuidance(Get(inherited, "llm_guidance", ""),
                                       Get(step_cfg, "llm_guidance_addendum", ""))))
        ELSE IF /\ resolved # "mixed"
                /\ chosen # None
                /\ chosen # resolved
                /\ DOMAIN inherited # {}
        THEN Get(inherited, "llm_guidance", None)
        ELSE Get(step_cfg, "llm_guidance", None)

\* the last response of the session's endpoints, with the request's step, the
\* session fields and the configuration it was resolved from
ViewOf(op, status, step, s, cfg, resp, guidance) ==
    [op |-> op, status |-> status, step |-> step,
     resolved_path |-> s.resolved_path, chosen_methodology |-> s.chosen_methodology,
     cfg |-> cfg, resp |-> resp, guidance |-> guidance]

NoView == ViewOf("none", 0, 0, NewSession, EmptyDict, StepConfigResp(0), None)

\* the worldview ids a request may carry, none with surrounding whitespace
WorldviewInputs == DOMAIN WORLDVIEW_LABELS \cup {"realist"}

\* POST /worldview/set
set_worldview ==
    /\ \E wid \in WorldviewInputs :
        IF wid \notin DOMAIN WORLDVIEW_LABELS
        THEN /\ view' = ViewOf("set_worldview", 400, 0, sess, EmptyDict, StepConfigResp(0), None)
             /\ UNCHANGED <<sess, paths_config>>
        ELSE LET paths_cfg == load_paths_config(paths_config, paths_file)
                 wv_to_path == Get(paths_cfg, "worldview_to_path", EmptyDict)
                 step1 == Merge(Get(sess.step_notes, "1", EmptyDict),
                                [worldview_id |-> wid, worldview |-> wid])
                 after == [sess EXCEPT
                              !.worldview_band = wid,
                              !.worldview_label = WORLDVIEW_LABELS[wid],
                              !.step_notes = Put(sess.step_notes, "1", step1),
                              !.resolved_path = Get(wv_to_path, wid, None)]
             IN  /\ sess' = after
                 /\ paths_config' = paths_cfg
                 /\ view' = ViewOf("set_worldview", 200, 0, after, paths_cfg,
                                   StepConfigResp(0), None)
    /\ found' = sess
    /\ UNCHANGED <<paths_file, ragvars, fnvars>>

\* the methodology strings a request may carry, and (req.methodology or
\* "").strip().lower() of each
MethodologyInputs == {"quantitative", "qualitative", " Qualitative", "mixed"}
StripLower(m) == IF m = " Qualitative" THEN "qualitative" ELSE m

\* POST /step/set_methodology
set_methodology ==
    /\ \E m \in MethodologyInputs :
        LET meth == StripLower(m)
            prev == sess.chosen_methodology
            kept == IF prev # None /\ prev # meth
                    THEN Pop(sess.step_notes, {ToString(n) : n \in 5..9})
                    ELSE sess.step_notes
            s4 == Put(Get(kept, "4", EmptyDict), "chosen_methodology", meth)
            after == [sess EXCEPT
                         !.chosen_methodology = meth,
                         !.step_notes = Put(kept, "4", s4)]
        IN  IF meth \notin {"quantitative", "qualitative"}
            THEN /\ view' = ViewOf("set_methodology", 400, 0, sess, EmptyDict,
                                   StepConfigResp(0), None)
                 /\ UNCHANGED sess
            ELSE /\ sess' = after
                 /\ view' = ViewOf("set_methodology", 200, 0, after, EmptyDict,
                                   StepConfigResp(0), None)
    /\ found' = sess
    /\ UNCHANGED <<paths_file, paths_config, ragvars, fnvars>>

\* the steps and the data a save request may carry
SaveSteps == {4, 6}
SaveData == {EmptyDict, [notes |-> "n"]}

\* POST /step/save: sess.step_notes[key] = req.data or {}
save_step_data ==
    /\ \E step \in SaveSteps, data \in SaveData :
        LET after == [sess EXCEPT !.step_notes = Put(sess.step_notes, ToString(step), data)]
        IN  /\ sess' = after
            /\ view' = ViewOf("save_step_data", 200, step, after, EmptyDict,
                              StepConfigResp(0), None)
    /\ found' = sess
    /\ UNCHANGED <<paths_file, paths_config, ragvars, fnvars>>

\* GET /step/config
StepConfigRequest ==
    /\ \E step \in StepInputs :
        LET paths_cfg == load_paths_config(paths_config, paths_file)
        IN  /\ paths_config' = paths_cfg
            /\ view' = ViewOf("config", 200, step, sess, paths_cfg,
                              get_step_config(paths_cfg, sess, step), None)
    /\ found' = sess
    /\ UNCHANGED <<paths_file, sess, ragvars, fnvars>>

\* the guidance chat_send resolves for the request's active_step (line 1749).
\* load_paths_config is reached only past the first return
ChatGuidance ==
    /\ \E active_step \in StepInputs :
        LET paths_cfg == IF active_step < 4 THEN paths_config
                         ELSE load_paths_config(paths_config, paths_file)
        IN  /\ paths_config' = paths_cfg
            /\ view' = ViewOf("guidance", 200, active_step, sess, paths_cfg,
                              StepConfigResp(0),
                              _get_step_llm_guidance(paths_cfg, sess, active_step))
    /\ found' = sess
    /\ UNCHANGED <<paths_file, sess, ragvars, fnvars>>

\* ------------------------------------------------------------- chat_send
\* no chat_send in flight
NoChat == [pc |-> "idle", sess |-> NewSession, active_step |-> 0]

\* the active_step a chat request carries: none, or a step with guidance
ChatSteps == {0, 5}

\* POST /chat/send, up to the call of the language model: _require_session
\* loads the document; an empty message returns the history at once
ChatSendLoad ==
    /\ chat_req.pc = "idle"
    /\ \E active_step \in ChatSteps, empty \in BOOLEAN :
          IF empty
          THEN UNCHANGED chat_req
          ELSE chat_req' = [pc |-> "loaded", sess |-> sess, active_step |-> active_step]
    /\ found' = sess
    /\ UNCHANGED <<paths_file, paths_config, sess, view, ragvars, job, cli, kw>>

\* POST /chat/send, from the guidance and the model's answer to the return:
\* _persist_session writes every field of the loaded document back
ChatSendPersist ==
    /\ chat_req.pc = "loaded"
    /\ LET paths_cfg == IF chat_req.active_step < 4 THEN paths_config
                        ELSE load_paths_config(paths_config, paths_file)
       IN  /\ paths_config' = paths_cfg
           /\ view' = ViewOf("chat_send", 200, chat_req.active_step, chat_req.sess,
                             paths_cfg, StepConfigResp(0),
                             _get_step_llm_guidance(paths_cfg, chat_req.sess,
                                                    chat_req.active_step))
    /\ sess' = chat_req.sess
    /\ chat_req' = NoChat
    /\ UNCHANGED <<paths_file, found, ragvars, job, cli, kw>>

\* ------------------------------------------- get_teacher_student_step_config
NoWorldviewYet == "Student has not selected a worldview yet."
NoMethodologyYet == "Student has not chosen a methodology yet."

\* get_teacher_student_step_config after the role check, with the session and
\* the configuration loaded
get_teacher_student_step_config(paths_cfg, s, step) ==
    LET resolved == s.resolved_path
        chosen == s.chosen_methodology
        all_paths == Get(paths_cfg, "paths", EmptyDict)
        step_cfg == StepCfgOf(all_paths, resolved, step)
        inherited_cfg == StepCfgOf(all_paths, chosen, step)
    IN  IF step <= 3 THEN StepConfigResp(step)
        ELSE IF resolved = None
        THEN [StepConfigResp(step) EXCEPT
                 !.title = StepTitle(step), !.directions = NoWorldviewYet]
        ELSE IF resolved = "mixed" /\ step >= 5 /\ Flagged(step_cfg)
        THEN (IF chosen = None
              THEN [StepConfigResp(step) EXCEPT
                       !.path = "mixed", !.title = StepTitle(step),
                       !.directions = NoMethodologyYet]
              ELSE FromStepCfg(step, "mixed", inherited_cfg,
                       OrNone(JoinGuidance(Get(inherited_cfg, "llm_guidance", ""),
                                           Get(step_cfg, "llm_guidance_addendum", "")))))
        ELSE [FromStepCfg(step, resolved, step_cfg, Get(step_cfg, "llm_guidance", None))
                 EXCEPT
                 !.quantitative_options =
                     IF resolved = "mixed" /\ step = 4
                     THEN Get(StepCfgOf(all_paths, "quantitative", 4), "options", None)
                     ELSE None,
                 !.qualitative_options =
                     IF resolved = "mixed" /\ step = 4
                     THEN Get(StepCfgOf(all_paths, "qualitative", 4), "options", None)
                     ELSE None]

\* the roles a caller may have
Roles == {"student", "teacher", "admin"}

\* GET /teacher/student-step-config: 403 unless the caller is an admin or a
\* teacher who owns the student's class
TeacherStepConfigRequest ==
    /\ \E step \in StepInputs, role \in Roles, owns \in BOOLEAN :
        IF role \notin {"teacher", "admin"} \/ (role = "teacher" /\ ~owns)
        THEN /\ view' = ViewOf("teacher_config", 403, step, sess, EmptyDict,
                               StepConfigResp(0), None)
             /\ UNCHANGED paths_config
        ELSE LET paths_cfg == load_paths_config(paths_config, paths_file)
             IN  /\ paths_config' = paths_cfg
                 /\ view' = ViewOf("teacher_config", 200, step, sess, paths_cfg,
                                   get_teacher_student_step_config(paths_cfg, sess, step),
                                   None)
    /\ found' = sess
    /\ UNCHANGED <<paths_file, sess, ragvars, fnvars>>

\* PATHS_PATH is deployed, edited, broken or removed while the process runs
PathsFileChange ==
    /\ \E f \in (PathsFiles \cup {Corrupt}) \ {paths_file} : paths_file' = f
    /\ UNCHANGED <<paths_config, sess, view, found, ragvars, fnvars>>

\* ------------------------------------------------------------------ chunking

\* the texts, window sizes and overlaps a call of _chunk is given: every text
\* of up to MaxTextLen characters with every small size and overlap, and a run
\* of 0..MaxLongLen letters with the sizes of the chunking scenario
MaxTextLen == 4
MaxChars == 3
MaxLongLen == 120
ChunkChars == {"a", "b", " "}
ShortTexts == UNION {[1..n -> ChunkChars] : n \in 0..MaxTextLen}
LongTexts == {[i \in 1..n |-> "a"] : n \in 0..MaxLongLen}

JobAt(pc, text, max_chars, overlap, out) ==
    [pc |-> pc, text |-> text, max_chars |-> max_chars, overlap |-> overlap, out |-> out]

NoJob == JobAt("none", <<>>, 0, 0, <<>>)

ChunkInputs ==
    {JobAt("args", t, mc, ov, <<>>) : t \in ShortTexts, mc \in 1..MaxChars, ov \in 0..MaxChars}
    \cup {JobAt("args", t, 100, 20, <<>>) : t \in LongTexts}

\* _chunk(text, max_chars, overlap) is called and returns
ChunkCall ==
    /\ job.pc = "args"
    /\ job' = [job EXCEPT !.pc = "done",
                          !.out = _chunk(job.text, job.max_chars, job.overlap)]
    /\ UNCHANGED <<ragvars, sessvars, cli, chat_req, kw>>

\* ------------------------------------------------------------------ spec
Init ==
    /\ RAG_AVAILABLE \in BOOLEAN
    /\ faults = FALSE
    /\ proc = "starting"
    /\ corpus \in Corpora
    /\ indexFile = Missing
    /\ metaFile = Missing
    /\ half_written = FALSE
    /\ embedder = FALSE
    /\ faiss_index = NoIndex
    /\ chunks = <<>>
    /\ raw_docs_cache = NoCache
    /\ bld = BldAt("enter", "startup", <<>>)
    /\ rt = RtIdle
    /\ paths_file = Missing
    /\ paths_config = EmptyDict
    /\ sess = NewSession
    /\ view = NoView
    /\ found = NewSession
    /\ job = NoJob
    /\ cli = CliNotRun
    /\ chat_req = NoChat
    /\ kw = KwIdle

\* the serving process: the index store, reindex requests and retrievals
Next ==
    \/ BuildEnter
    \/ BuildReadIndex
    \/ BuildReadMeta
    \/ BuildScan
    \/ BuildEmptyChunks
    \/ BuildWriteIndex
    \/ BuildWriteMeta
    \/ BuildSetChunks
    \/ ReindexCall
    \/ ReindexUnlinkIndex
    \/ ReindexUnlinkMeta
    \/ RetrieveCall
    \/ RetrieveGuard
    \/ RetrieveSearch
    \/ RetrieveMap
    \/ RetrieveKeyword
    \/ RetrieveReturn
    \/ CorpusChange
    \/ Crash
    \/ Start

Spec == Init /\ [][Next]_vars

\* the index store alone, on a file system whose writes and unlinks can fail
InitStore ==
    /\ RAG_AVAILABLE \in BOOLEAN
    /\ faults = TRUE
    /\ proc = "starting"
    /\ corpus \in Corpora
    /\ indexFile = Missing
    /\ metaFile = Missing
    /\ half_written = FALSE
    /\ embedder = FALSE
    /\ faiss_index = NoIndex
    /\ chunks = <<>>
    /\ raw_docs_cache = NoCache
    /\ bld = BldAt("enter", "startup", <<>>)
    /\ rt = RtIdle
    /\ paths_file = Missing
    /\ paths_config = EmptyDict
    /\ sess = NewSession
    /\ view = NoView
    /\ found = NewSession
    /\ job = NoJob
    /\ cli = CliNotRun
    /\ chat_req = NoChat
    /\ kw = KwIdle

NextStore ==
    \/ BuildEnter
    \/ BuildReadIndex
    \/ BuildReadMeta
    \/ BuildScan
    \/ BuildEmptyChunks
    \/ BuildWriteIndex
    \/ BuildWriteMeta
    \/ BuildSetChunks
    \/ ReindexCall
    \/ ReindexUnlinkIndex
    \/ ReindexUnlinkMeta
    \/ CreateIndexMain
    \/ CorpusChange
    \/ Crash
    \/ Start

SpecStore == InitStore /\ [][NextStore]_vars

\* one session of a serving process that started without the optional imports:
\* the startup hook has run load_paths_config once
InitCfg ==
    /\ RAG_AVAILABLE = FALSE
    /\ faults = FALSE
    /\ proc = "serving"
    /\ corpus = CorpusE
    /\ indexFile = Missing
    /\ metaFile = Missing
    /\ half_written = FALSE
    /\ embedder = FALSE
    /\ faiss_index = NoIndex
    /\ chunks = <<>>
    /\ raw_docs_cache = NoCache
    /\ bld = BldIdle
    /\ rt = RtIdle
    /\ paths_file \in PathsFiles
    /\ paths_config = load_paths_config(EmptyDict, paths_file)
    /\ sess = NewSession
    /\ view = NoView
    /\ found = NewSession
    /\ job = NoJob
    /\ cli = CliNotRun
    /\ chat_req = NoChat
    /\ kw = KwIdle

NextCfg ==
    \/ set_worldview
    \/ set_methodology
    \/ save_step_data
    \/ StepConfigRequest
    \/ ChatGuidance

SpecCfg == InitCfg /\ [][NextCfg]_vars

\* the service after a startup that built the index over the corpus
InitCache ==
    /\ RAG_AVAILABLE = TRUE
    /\ faults = FALSE
    /\ proc = "serving"
    /\ corpus \in Corpora
    /\ LET cs == ChunkDocs(corpus)
           built == NewIndex([i \in 1..Len(cs) |-> cs[i].text])
       IN  /\ indexFile = IF cs = <<>> THEN Missing ELSE built
           /\ metaFile = IF cs = <<>> THEN Missing
                         ELSE [st |-> "ok", items |-> Enumerate(cs)]
           /\ faiss_index = built
           /\ chunks = Enumerate(cs)
    /\ half_written = FALSE
    /\ embedder = TRUE
    /\ raw_docs_cache = NoCache
    /\ bld = BldIdle
    /\ rt = RtIdle
    /\ paths_file = Missing
    /\ paths_config = EmptyDict
    /\ sess = NewSession
    /\ view = NoView
    /\ found = NewSession
    /\ job = NoJob
    /\ cli = CliNotRun
    /\ chat_req = NoChat
    /\ kw = KwIdle

\* keyword fallback from two requests while the corpus changes and is reindexed
NextCache ==
    \/ \E c \in KwCallers : KwCall(c)
    \/ \E c \in KwCallers : KwCheck(c)
    \/ \E c \in KwCallers : KwLoad(c)
    \/ \E c \in KwCallers : KwAssign(c)
    \/ \E c \in KwCallers : KwScore(c)
    \/ \E c \in KwCallers : KwReturn(c)
    \/ ReindexCall
    \/ ReindexUnlinkIndex
    \/ ReindexUnlinkMeta
    \/ BuildEnter
    \/ BuildReadIndex
    \/ BuildScan
    \/ BuildEmptyChunks
    \/ BuildWriteIndex
    \/ BuildWriteMeta
    \/ BuildSetChunks
    \/ CorpusChange

SpecCache == InitCache /\ [][NextCache]_vars

\* the endpoints that store the methodology and the step notes, while one
\* chat_send is in flight
NextRace ==
    \/ set_methodology
    \/ save_step_data
    \/ ChatSendLoad
    \/ ChatSendPersist

SpecRace == InitCfg /\ [][NextRace]_vars

\* a teacher or an admin looks at the session while the student moves on
NextTeacher ==
    \/ set_worldview
    \/ set_methodology
    \/ TeacherStepConfigRequest

SpecTeacher == InitCfg /\ [][NextTeacher]_vars

\* the callers of load_paths_config while the configuration file changes
\* under the process
NextPaths ==
    \/ set_worldview
    \/ StepConfigRequest
    \/ ChatGuidance
    \/ PathsFileChange

SpecPaths == InitCfg /\ [][NextPaths]_vars

\* calls of _chunk alone, in a process that serves nothing else
InitChunk ==
    /\ RAG_AVAILABLE = FALSE
    /\ faults = FALSE
    /\ proc = "serving"
    /\ corpus = CorpusE
    /\ indexFile = Missing
    /\ metaFile = Missing
    /\ half_written = FALSE
    /\ embedder = FALSE
    /\ faiss_index = NoIndex
    /\ chunks = <<>>
    /\ raw_docs_cache = NoCache
    /\ bld = BldIdle
    /\ rt = RtIdle
    /\ paths_file = Missing
    /\ paths_config = EmptyDict
    /\ sess = NewSession
    /\ view = NoView
    /\ found = NewSession
    /\ job \in ChunkInputs
    /\ cli = CliNotRun
    /\ chat_req = NoChat
    /\ kw = KwIdle

NextChunk == ChunkCall

SpecChunk == InitChunk /\ [][NextChunk]_vars

\* retrievals of a process that started without the optional imports: every
\* call is answered by keyword scoring over the cached documents
InitKw ==
    /\ RAG_AVAILABLE = FALSE
    /\ faults = FALSE
    /\ proc = "serving"
    /\ corpus \in KwCorpora
    /\ indexFile = Missing
    /\ metaFile = Missing
    /\ half_written = FALSE
    /\ embedder = FALSE
    /\ faiss_index = NoIndex
    /\ chunks = <<>>
    /\ raw_docs_cache = NoCache
    /\ bld = BldIdle
    /\ rt = RtIdle
    /\ paths_file = Missing
    /\ paths_config = EmptyDict
    /\ sess = NewSession
    /\ view = NoView
    /\ found = NewSession
    /\ job = NoJob
    /\ cli = CliNotRun
    /\ chat_req = NoChat
    /\ kw = KwIdle

NextKw ==
    \/ RetrieveCall
    \/ RetrieveGuard
    \/ RetrieveKeyword
    \/ RetrieveReturn

SpecKw == InitKw /\ [][NextKw]_vars

\* ------------------------------------------------------------------ claims

\* the text the claim gives strategy s: 1 and 4 the composite query
\* (query, two newlines, boost; the bare query without a boost), 2 and 5 the
\* bare query, 3 the bare boost
ClaimText(s, query, boost) ==
    IF s \in {1, 4}
    THEN (IF boost.given /\ boost.text # <<>>
          THEN query \o <<"\n", "\n">> \o boost.text
          ELSE query)
    ELSE IF s \in {2, 5} THEN query ELSE boost.text

\* the strategies the claim lets a call try, in order: the vector searches
\* when the guard found an index and chunks (the boost's only when one was
\* supplied), then the keyword scorings; app_chat.py's retrieve has no boost
\* and tries its single text once per kind
ClaimCascade(r) ==
    IF r.variant = "app"
    THEN (IF r.guard
          THEN <<1, 2>> \o (IF r.boost.given /\ r.boost.text # <<>> THEN <<3>> ELSE <<>>)
          ELSE <<>>)
         \o <<4, 5>>
    ELSE (IF r.guard THEN <<1>> ELSE <<>>) \o <<4>>

\* C1: a retrieve that returns has tried a prefix of the fixed cascade, each
\* strategy on its own text, every strategy before the last returned nothing,
\* the list returned is the last strategy's, the call stopped at the first
\* non-empty result or at the end of the cascade, and keyword scoring was
\* reached only without a usable index or after every vector attempt was empty.
C1_CascadeOrder ==
    rt.pc = "done" =>
        LET T == rt.tried
            n == Len(T)
            E == ClaimCascade(rt)
        IN  /\ n >= 1
            /\ n <= Len(E)
            /\ \A i \in 1..n :
                  /\ T[i].s = E[i]
                  /\ T[i].text = ClaimText(E[i], rt.query, rt.boost)
            /\ \A i \in 1..(n - 1) : T[i].n <= 0
            /\ Len(rt.results) = T[n].n
            /\ T[n].n > 0 \/ n = Len(E)
            /\ \A i \in 1..n :
                  T[i].s >= 4 =>
                      \/ ~rt.guard
                      \/ \A j \in 1..(i - 1) : T[j].n <= 0

\* a call whose composite and bare-query searches found nothing and whose
\* boost search produced the list returned
C1_Witness ==
    /\ rt.pc = "done"
    /\ rt.variant = "app"
    /\ Len(rt.tried) = 3
    /\ rt.tried[3].s = 3
    /\ rt.results # <<>>

\* C2: retrieve never raises to its caller.
C2_RetrieveNeverRaises == rt.pc # "raised"

\* C3: no retrieve maps the hits of one index through the metadata list of
\* another: the vectors searched are the embeddings of the list read.
C3_NoTornRead == ~rt.torn

\* a load completes: json.loads succeeded and _build_index returns
LoadAccepted == bld.pc = "read_meta" /\ bld'.pc = "idle" /\ proc' # "down"

\* C4: a load that is accepted leaves as many metadata entries as the index
\* has vectors.
C4_LoadChecksCount ==
    [][LoadAccepted => Len(chunks') = Len(faiss_index'.vecs)]_vars

\* C5: a pair of artifacts left by a build that stopped between the two
\* writes is never accepted by a load.
C5_HalfWrittenNeverAccepted == [][LoadAccepted => ~half_written]_vars

\* C6: a reindex never ends by loading the persisted artifacts.
C6_ReindexNeverLoads == [][bld.caller = "reindex" => ~LoadAccepted]_vars

\* the fields of a step spec that a configuration carries
FieldKeys == {"title", "directions", "field_type", "field_key", "options", "fields"}

\* the step spec of a path in the configuration a response was resolved from
ViewSpec(path) == StepCfgOf(Get(view.cfg, "paths", EmptyDict), path, view.step)

\* the guidance a response carries: the configuration's llm_guidance, or the
\* string of the guidance-only query
ViewGuidance == IF view.op = "config" THEN view.resp.llm_guidance ELSE view.guidance

\* a response for a mixed session at a step 5-9
MixedStepView ==
    /\ view.op \in {"config", "guidance"}
    /\ view.resolved_path = "mixed"
    /\ view.step \in 5..9

\* C7: for a mixed session with a methodology chosen, a flagged step 5-9 takes
\* every field the chosen methodology's spec has from that spec and none from
\* the mixed spec, and its guidance is the inherited guidance, a newline and the
\* addendum when both are non-empty, the addendum alone when the inherited
\* guidance is empty, the inherited guidance alone when the addendum is empty.
C7_MixedInheritance ==
    (/\ MixedStepView
     /\ Flagged(ViewSpec("mixed"))
     /\ view.chosen_methodology # None) =>
        LET ch == ViewSpec(view.chosen_methodology)
            mx == ViewSpec("mixed")
            inherited == Get(ch, "llm_guidance", "")
            addendum == Get(mx, "llm_guidance_addendum", "")
        IN  /\ view.op = "config" =>
                \A key \in FieldKeys :
                    /\ key \in DOMAIN ch => view.resp[key] = ch[key]
                    /\ (key \notin DOMAIN ch /\ key \in DOMAIN mx) => view.resp[key] # mx[key]
            /\ (inherited # "" /\ addendum # "") =>
                   ViewGuidance = inherited \o "\n" \o addendum
            /\ (inherited = "" /\ addendum # "") => ViewGuidance = addendum
            /\ (inherited # "" /\ addendum = "") => ViewGuidance = inherited

\* the configuration of step 5 for a mixed session that chose qualitative:
\* qualitative's fields, its guidance joined with the mixed addendum
C7_Witness ==
    /\ view.op = "config"
    /\ view.resolved_path = "mixed"
    /\ view.chosen_methodology = "qualitative"
    /\ view.step = 5
    /\ view.resp.title = "L5 title"
    /\ view.resp.llm_guidance = "L5 guidance\nM5 addendum"

\* a configuration that carries no field specification and directs the
\* student to step 4
IsHolding(r) ==
    /\ r.field_type = None
    /\ r.field_key = None
    /\ r.options = None
    /\ r.fields = None
    /\ r.directions = Step4First

\* C8 as stated: for a mixed session without a chosen methodology, the
\* configuration of any step 5-9 is the holding configuration.
C8_UnsetAlwaysHolding ==
    (/\ MixedStepView
     /\ view.op = "config"
     /\ view.chosen_methodology = None) => IsHolding(view.resp)

\* C8: for a mixed session without a chosen methodology, the configuration of
\* a step 5-9 whose mixed spec is flagged inherits_from_chosen_methodology is
\* the holding configuration; an unflagged step resolves to the mixed path's
\* own spec for the step.
C8_FlaggedUnsetHolding ==
    (/\ MixedStepView
     /\ view.op = "config"
     /\ view.chosen_methodology = None) =>
        IF Flagged(ViewSpec("mixed"))
        THEN IsHolding(view.resp)
        ELSE \A key \in FieldKeys :
                 key \in DOMAIN ViewSpec("mixed") => view.resp[key] = ViewSpec("mixed")[key]

\* the holding configuration returned for the flagged step 6
C8_Witness ==
    /\ view.op = "config"
    /\ view.resolved_path = "mixed"
    /\ view.chosen_methodology = None
    /\ view.step = 6
    /\ Flagged(ViewSpec("mixed"))
    /\ view.resp.directions = Step4First

\* C9: for a non-mixed session whose chosen methodology differs from its
\* resolved path, the configuration of a step 5-9 has every field and the
\* guidance of the chosen methodology's spec and nothing of the resolved
\* path's spec.
C9_OverrideInFull ==
    (/\ view.op = "config"
     /\ view.resolved_path \in {"quantitative", "qualitative"}
     /\ view.chosen_methodology \notin {None, view.resolved_path}
     /\ view.step \in 5..9) =>
        LET ov == ViewSpec(view.chosen_methodology)
            own == ViewSpec(view.resolved_path)
        IN  \A key \in FieldKeys \cup {"llm_guidance"} :
                /\ key \in DOMAIN ov => view.resp[key] = ov[key]
                /\ (key \notin DOMAIN ov /\ key \in DOMAIN own) => view.resp[key] # own[key]

\* C10: for every session and step 4-9, the string of the guidance-only query
\* is the llm_guidance of the step configuration resolved from the same session,
\* step and configuration.
C10_GuidanceMatchesConfig ==
    (view.op = "guidance" /\ view.step \in 4..9) =>
        view.guidance =
            get_step_config(view.cfg,
                            [NewSession EXCEPT
                                !.resolved_path = view.resolved_path,
                                !.chosen_methodology = view.chosen_methodology],
                            view.step).llm_guidance

\* the keys of a step-4 spec that the step-4 configuration reads
Step4Keys == {"title", "directions", "field_key", "options", "fields", "llm_guidance"}

\* C11: the step-4 configuration has every field of resolved_path's own
\* step-4 spec and none of the chosen methodology's, exposes the quantitative
\* and the qualitative step-4 options for a mixed path, and recommends
\* resolved_path when it is quantitative or qualitative and nothing otherwise.
C11_Step4OwnSpec ==
    (view.op = "config" /\ view.step = 4 /\ view.resolved_path # None) =>
        LET own == ViewSpec(view.resolved_path)
            ch == ViewSpec(view.chosen_methodology)
        IN  /\ \A key \in Step4Keys :
                /\ key \in DOMAIN own => view.resp[key] = own[key]
                /\ (/\ key \notin DOMAIN own
                    /\ view.chosen_methodology # view.resolved_path
                    /\ key \in DOMAIN ch) => view.resp[key] # ch[key]
            /\ view.resolved_path = "mixed" =>
                /\ view.resp.quantitative_options =
                       Get(ViewSpec("quantitative"), "options", None)
                /\ view.resp.qualitative_options =
                       Get(ViewSpec("qualitative"), "options", None)
            /\ view.resp.recommended_methodology =
                   IF view.resolved_path \in {"quantitative", "qualitative"}
                   THEN view.resolved_path
                   ELSE None

\* the step-4 configuration of a mixed session that chose qualitative: the
\* mixed spec's title, both option sets, no recommendation
C11_Witness ==
    /\ view.op = "config"
    /\ view.step = 4
    /\ view.resolved_path = "mixed"
    /\ view.chosen_methodology = "qualitative"
    /\ view.resp.title = "M4 title"
    /\ view.resp.quantitative_options = "Q4 options"
    /\ view.resp.qualitative_options = "L4 options"
    /\ view.resp.recommended_methodology = None

\* two dicts with the same keys and values
DictEq(a, b) == DOMAIN a = DOMAIN b /\ \A k \in DOMAIN a : a[k] = b[k]

\* the last request set the methodology
MethodologySet == view.op = "set_methodology" /\ view.status = 200

\* the session has no notes of the steps 5-9
NoLaterNotes == \A n \in 5..9 : ToString(n) \notin DOMAIN sess.step_notes

\* C12: after a request that changed chosen_methodology from one value to a
\* different one, the session has no notes of the steps 5-9 and the notes of
\* the steps 1-3 are the ones the request found.
C12_ChangeClearsLaterSteps ==
    (/\ MethodologySet
     /\ found.chosen_methodology # None
     /\ sess.chosen_methodology # found.chosen_methodology) =>
        /\ NoLaterNotes
        /\ \A n \in 1..3 :
            LET key == ToString(n)
            IN  /\ key \in DOMAIN sess.step_notes <=> key \in DOMAIN found.step_notes
                /\ key \in DOMAIN found.step_notes =>
                       DictEq(sess.step_notes[key], found.step_notes[key])

\* a change of methodology on a session that had notes of step 1 and step 6
C12_Witness ==
    /\ MethodologySet
    /\ found.chosen_methodology # None
    /\ sess.chosen_methodology # found.chosen_methodology
    /\ "1" \in DOMAIN found.step_notes
    /\ "6" \in DOMAIN found.step_notes

\* C13: after any request that set the methodology, the first one on the
\* session included, the session has no notes of the steps 5-9.
C13_SetClearsLaterSteps == MethodologySet => NoLaterNotes

\* C14: a request that found resolved_path set leaves it as it found it.
C14_ResolvedPathStable ==
    found.resolved_path # None => sess.resolved_path = found.resolved_path

\* C15: a configuration request with a step outside 1-9 is rejected, and so
\* is a guidance request with a step above 9 (its 0 also stands for a request
\* without active_step, which is not counted).
C15_StepRangeRejected ==
    (\/ view.op = "config" /\ view.step \notin 1..9
     \/ view.op = "guidance" /\ view.step > 9) => view.status # 200

\* C16: for the steps 1-3 the configuration is the empty default whatever the
\* session's path and methodology are, and the guidance query returns nothing.
C16_PrePathDefault ==
    /\ (view.op = "config" /\ view.step \in 1..3) =>
        /\ view.resp.step = view.step
        /\ view.resp.path = None
        /\ view.resp.title = ""
        /\ view.resp.directions = ""
        /\ \A key \in {"field_type", "field_key", "options", "fields", "llm_guidance",
                       "quantitative_options", "qualitative_options",
                       "recommended_methodology"} : view.resp[key] = None
    /\ (view.op = "guidance" /\ view.step \in 1..3) => view.guidance = None

\* the configuration of step 2 for a mixed session that chose qualitative
C16_Witness ==
    /\ view.op = "config"
    /\ view.step = 2
    /\ view.resolved_path = "mixed"
    /\ view.chosen_methodology = "qualitative"
    /\ view.resp.title = ""

\* the text of a call after whitespace is collapsed and trimmed, as the claims
\* describe it
JobText == Strip(CollapseSpace(job.text))

\* C17: the windows of a call start at the multiples of max(1, max_chars -
\* overlap) in the normalized text, in order, and every window but the last
\* has exactly max_chars characters.
C17_WindowsFullButLast ==
    job.pc = "done" =>
        LET t == JobText
            step == IF job.max_chars - job.overlap > 1 THEN job.max_chars - job.overlap ELSE 1
            out == job.out
        IN  /\ t = <<>> => out = <<>>
            /\ \A i \in 1..Len(out) :
                /\ (i - 1) * step < Len(t)
                /\ \A j \in 1..Len(out[i]) : out[i][j] = t[(i - 1) * step + j]
            /\ \A i \in 1..(Len(out) - 1) : Len(out[i]) = job.max_chars

\* the least integer not below a / b, for a >= 0 and b > 0
CeilDiv(a, b) == (a + b - 1) \div b

\* C18: with max_chars 100 and overlap 20 a normalized text of length L gives
\* ceil((L - 100) / 80) + 1 chunks when L > 100, one chunk when 1 <= L <= 100
\* and none when it is empty.
C18_ChunkCount ==
    (job.pc = "done" /\ job.max_chars = 100 /\ job.overlap = 20) =>
        LET L == Len(JobText)
        IN  Len(job.out) = IF L = 0 THEN 0
                           ELSE IF L > 100 THEN CeilDiv(L - 100, 80) + 1
                           ELSE 1

\* the last strategy of a returned call was a keyword scoring
KeywordAnswered ==
    /\ rt.pc = "done"
    /\ rt.tried # <<>>
    /\ rt.tried[Len(rt.tried)].s >= 4

\* the number of places where the document's text, in lower case, holds q
Occurrences(d, q) ==
    Cardinality({i \in 0..(Len(d.text) - Len(q)) :
                    \A j \in 1..Len(q) : Lower(d.text)[i + j] = q[j]})

\* the score the claim gives a document: its occurrences, and one more when
\* there is any
ClaimScore(d, q) == IF Occurrences(d, q) > 0 THEN Occurrences(d, q) + 1 ELSE 0

\* C19: a call answered by keyword scoring returns, for the trimmed and
\* lowercased text of its last strategy, documents of the cache only, each
\* once, with its score (occurrences plus one) above 0 and the first 2000
\* characters of its text, in descending order of score, as many as there are
\* scoring documents up to k, and no document left out scores higher than one
\* returned.
C19_KeywordScoring ==
    KeywordAnswered =>
        LET q == Lower(Strip(rt.tried[Len(rt.tried)].text))
            docs == raw_docs_cache.docs
            out == rt.results
            scoring == {i \in 1..Len(docs) : ClaimScore(docs[i], q) > 0}
            Returned(i) == \E n \in 1..Len(out) : out[n].source = docs[i].source
        IN  q # <<>> =>
            /\ \A n \in 1..Len(out) :
                \E i \in scoring :
                    /\ out[n].source = docs[i].source
                    /\ out[n].score = ClaimScore(docs[i], q)
                    /\ out[n].text =
                           SubSeq(docs[i].text, 1,
                                  IF Len(docs[i].text) < 2000 THEN Len(docs[i].text) ELSE 2000)
            /\ \A n1, n2 \in 1..Len(out) :
                /\ n1 < n2 => out[n1].score >= out[n2].score
                /\ n1 # n2 => out[n1].source # out[n2].source
            /\ Len(out) = IF Cardinality(scoring) < rt.k THEN Cardinality(scoring) ELSE rt.k
            /\ \A i \in scoring :
                ~Returned(i) => \A n \in 1..Len(out) : out[n].score >= ClaimScore(docs[i], q)

\* the query "a" with k = 2: the long document, holding it three times, comes
\* first with score 4 and 2000 characters of text, before the document
\* holding it once
C19_Witness ==
    /\ KeywordAnswered
    /\ rt.k = 2
    /\ Len(rt.results) = 2
    /\ rt.results[1].source = "t.txt"
    /\ rt.results[1].score = 4
    /\ Len(rt.results[1].text) = KeywordTextLimit
    /\ rt.results[2].score = 2

\* C20: a retrieve that returns a list returns at most k entries.
C20_AtMostK == rt.pc = "done" => Len(rt.results) <= rt.k

\* a call with k = 0 answered by keyword scoring although a cached document
\* holds its text: the empty list
C20_Witness ==
    /\ KeywordAnswered
    /\ rt.k = 0
    /\ rt.results = <<>>
    /\ \E i \in 1..Len(raw_docs_cache.docs) :
           ClaimScore(raw_docs_cache.docs[i],
                      Lower(Strip(rt.tried[Len(rt.tried)].text))) > 0

VectorScored(e, t, vecs, cs) ==
    \E i \in 1..Min(Len(vecs), Len(cs)) :
        /\ e.text = cs[i].text
        /\ e.source = cs[i].source
        /\ e.score = InnerProduct(Encode(t), vecs[i])

\* an entry scored by keyword scoring of text t: a document of the cache with
\* its occurrence score
KeywordScored(e, t, docs) ==
    \E i \in 1..Len(docs) :
        /\ e.source = docs[i].source
        /\ e.text = SubSeq(docs[i].text, 1, Min(Len(docs[i].text), KeywordTextLimit))
        /\ e.score = ClaimScore(docs[i], Lower(Strip(t)))

\* C22: the list a retrieve returns comes from exactly one strategy: either
\* every entry is a hit of the last vector search, or every entry is a
\* document scored by the last keyword scoring; never some of each.
C22_OneStrategy ==
    [][(rt.pc # "done" /\ rt'.pc = "done") =>
          LET t == ClaimText(rt.strat, rt.query, rt.boost)
          IN  \/ /\ rt.pc = "map"
                 /\ \A j \in 1..Len(rt'.results) :
                        VectorScored(rt'.results[j], t, rt.seen, chunks)
              \/ /\ rt.pc = "keyword"
                 /\ \A j \in 1..Len(rt'.results) :
                        KeywordScored(rt'.results[j], t, raw_docs_cache'.docs)]_vars

\* a call that ran a vector search, got nothing from it, and returned the
\* list of the keyword scoring alone
C22_Witness ==
    /\ rt.pc = "done"
    /\ rt.guard
    /\ rt.tried[1].s = 1
    /\ rt.tried[Len(rt.tried)].s >= 4
    /\ rt.results # <<>>
    /\ raw_docs_cache # NoCache
    /\ \A j \in 1..Len(rt.results) :
           KeywordScored(rt.results[j], rt.tried[Len(rt.tried)].text, raw_docs_cache.docs)

\* a build completes: the last assignment of _chunks, then _build_index returns
BuildCompleted ==
    bld.pc \in {"set_chunks", "empty_chunks"} /\ bld'.pc = "idle" /\ proc' # "down"

\* the entry at every position of the metadata list has that position as its
\* id and is the chunk whose embedding is at that position of the index
IdIsPosition(index, items) ==
    /\ index # NoIndex
    /\ Len(items) = Len(index.vecs)
    /\ \A i \in 1..Len(items) :
          /\ items[i].id = i - 1
          /\ index.vecs[i] = Encode(items[i].text)

\* C23: after every build and every load, the entry at position i of the
\* metadata list has id i and describes the chunk whose vector is at position
\* i of the index.
C23_IdIsPosition ==
    [][(BuildCompleted \/ LoadAccepted) => IdIsPosition(faiss_index', chunks')]_vars

\* an artifact that is missing or does not parse
Unusable(file) == file.st \in {"missing", "corrupt"}

\* the load is tried and cannot succeed: the step is the existence check
\* with a file missing or an index that does not parse, or the metadata read
\* with metadata that does not parse
LoadFails ==
    /\ bld' # bld
    /\ proc' = proc
    /\ \/ bld.pc = "check" /\ (Unusable(indexFile) \/ metaFile.st = "missing")
       \/ bld.pc = "read_meta" /\ Unusable(metaFile)

\* C24: a load that finds an artifact missing or unparsable does not fail and
\* accepts nothing: the build goes on to scan the corpus, and every build that
\* then completes leaves the index and the metadata list of that scan.
C24_LoadFallsBackToRebuild ==
    [][/\ LoadFails => bld'.pc = "scan" /\ bld'.caller = bld.caller /\ chunks' = chunks
       /\ BuildCompleted =>
             /\ faiss_index' = NewIndex([i \in 1..Len(bld.lchunks) |-> bld.lchunks[i].text])
             /\ chunks' = Enumerate(bld.lchunks)]_vars

\* the index was read from its file, the metadata did not parse, and the
\* build stands at the scan of the corpus
C24_Witness ==
    /\ bld.pc = "scan"
    /\ indexFile.st = "ok"
    /\ faiss_index = indexFile
    /\ metaFile.st = "corrupt"
    /\ proc = "starting"

\* a build of the service finds no chunks and returns
EmptyBuildReturns == bld.pc = "empty_chunks" /\ bld'.pc = "idle" /\ proc' # "down"

\* a run of create_index.py that gets as far as chunking finds no chunks
EmptyCliBuild ==
    /\ cli' # cli
    /\ cli'.status \notin {"none", "exists"}
    /\ ChunkDocs(corpus) = <<>>

\* C25: a build over a corpus that yields zero chunks is not an error: it
\* ends with the empty index and the empty metadata list and writes no
\* artifact, in the service's _build_index and in create_index.py alike.
C25_ZeroChunksNoError ==
    [][/\ EmptyBuildReturns =>
             /\ faiss_index' = NewIndex(<<>>)
             /\ chunks' = <<>>
             /\ proc' = AfterBuild(bld.caller, FALSE)
             /\ UNCHANGED <<indexFile, metaFile>>
       /\ EmptyCliBuild =>
             /\ cli'.status = "done"
             /\ UNCHANGED <<indexFile, metaFile>>]_vars

\* C26: the path configuration is loaded once: whatever the first call of
\* load_paths_config returned (the startup call, before any request), every
\* later call returns it again, so the cached configuration never changes.
C26_LoadedOnce == [][paths_config' = paths_config]_vars

\* the fields of a step configuration that the two endpoints are to agree on
SharedFields ==
    {"title", "field_type", "field_key", "options", "fields", "llm_guidance",
     "quantitative_options", "qualitative_options"}

\* the configuration the student endpoint returns for the session and step of
\* the last response
StudentConfigOfView ==
    get_step_config(view.cfg,
                    [resolved_path |-> view.resolved_path,
                     chosen_methodology |-> view.chosen_methodology],
                    view.step)

\* C27: for every session state and every step 4-9, the teacher/admin
\* endpoint returns the same title, field_type, field_key, options, fields,
\* llm_guidance and option sets as the student endpoint.
C27_TeacherSameAsStudent ==
    (view.op = "teacher_config" /\ view.status = 200 /\ view.step \in 4..9) =>
        \A f \in SharedFields : view.resp[f] = StudentConfigOfView[f]

\* a chat_send that loaded the session persists it
ChatPersists == chat_req.pc = "loaded" /\ chat_req'.pc = "idle"

\* C28: no session update is lost: what a set_methodology or a
\* save_step_data stored while a chat_send was in flight is still stored
\* after the chat_send has persisted; chat_send changes neither field itself.
C28_NoLostUpdate ==
    [][ChatPersists =>
          /\ sess'.chosen_methodology = sess.chosen_methodology
          /\ DictEq(sess'.step_notes, sess.step_notes)]_vars

\* C29: whenever the session's chosen_methodology is set, the notes of step 4
\* hold the same value under chosen_methodology, after any sequence of
\* set_methodology, save_step_data and set_worldview calls.
C29_Step4NotesMirrorMethodology ==
    sess.chosen_methodology # None =>
        /\ "4" \in DOMAIN sess.step_notes
        /\ "chosen_methodology" \in DOMAIN sess.step_notes["4"]
        /\ sess.step_notes["4"].chosen_methodology = sess.chosen_methodology

\* C30: the raw-document cache is filled at most once per process: once it
\* holds documents, no step of a running process changes it, a reindex that
\* scanned a changed corpus included.
C30_CacheFilledOnce ==
    [][(raw_docs_cache # NoCache /\ proc' # "down") =>
          raw_docs_cache' = raw_docs_cache]_vars

====
